---- MODULE Spec2Model ----
(***************************************************************************)
(* Model of cmd/koolo/main.go: the start-up sequence of main, the tasks    *)
(* it registers with one errgroup, the shared cancellation signal, the     *)
(* ordered teardown performed by the shutdown task, the recover barrier    *)
(* and the log flushes.                                                    *)
(***************************************************************************)
EXTENDS Naturals, FiniteSets, Sequences, TLC

VARIABLES
    enabled,        \* config.Koolo.Discord.Enabled / config.Koolo.Telegram.Enabled
    pc,             \* where main is
    path,           \* which way main is leaving the run
    exit,           \* how the process ended ("none" while it is alive)
    fault,          \* the step of main that raised a fault ("none" if none did)
    task,           \* state of every task handed to g.Go
    ret,            \* value each task returned
    constructed,    \* outcome of discord.NewBot / telegram.NewBot
    cancelCalled,   \* cancel() of context.WithCancel has been called
    gctxCancelled,  \* the group cancelled its derived context
    groupErr,       \* the error errgroup keeps (first non-nil one)
    err,            \* main's err variable, shared with the shutdown closure
    stopAllCalls,   \* calls of manager.StopAll()
    schedStopCalls, \* calls of scheduler.Stop()
    srvStopCalls,   \* calls of srv.Stop()
    sinkInit,       \* sloggger.NewLogger has returned a logger
    sinkLast,       \* last operation on the logger: "none", "write", "flush"
    flushCalls,     \* calls of sloggger.FlushLog()
    logged,         \* messages written through logger
    dialogs,        \* calls of utils.ShowDialog
    tree,           \* the entries under "config" in the order Walk meets them
    idx,            \* the entry Walk is about to visit
    seen,           \* what the walk function did with each entry
    sends,          \* calls of sendMessage for each entry
    scanLog,        \* what findConfigFiles wrote with log.Printf
    reading,        \* the entry readConfigFile is reading (0 if none)
    content,        \* the lines of the file being read
    lines           \* readConfigFile's lines slice

vars == <<enabled, pc, path, exit, fault, task, ret, constructed, cancelCalled,
          gctxCancelled, groupErr, err, stopAllCalls, schedStopCalls,
          srvStopCalls, sinkInit, sinkLast, flushCalls, logged, dialogs,
          tree, idx, seen, sends, scanLog, reading, content, lines>>

ctxVars  == <<cancelCalled, gctxCancelled>>
grpVars  == <<task, ret, groupErr, gctxCancelled>>
tearVars == <<stopAllCalls, schedStopCalls, srvStopCalls>>
sinkVars == <<sinkInit, sinkLast, flushCalls, logged>>
mainVars == <<pc, path, exit>>
scanVars == <<tree, idx, seen, sends, scanLog, reading, content, lines>>

Nil == "nil"

Integrations == {"discord", "telegram"}

Tasks == {"gui", "discord", "telegram", "server", "bus", "shutdown"}

\* the non-nil error a task can return
ErrOf(t) == t \o "_err"

Outcomes == {"ok", "error", "panic"}

Alive == exit = "none"

\* ctx.Done() of the context the group derived from the cancellable one
CtxDone == cancelCalled \/ gctxCancelled

Registered == {t \in Tasks : task[t] # "none"}

Running == {t \in Tasks : task[t] \notin {"none", "done"}}

----------------------------------------------------------------------------
\* logger.Error / logger.Info
LogWrite(m) ==
    /\ logged' = logged \cup {m}
    /\ sinkLast' = "write"
    /\ UNCHANGED <<sinkInit, flushCalls>>

\* sloggger.FlushLog()
FlushLog ==
    /\ sinkLast' = "flush"
    /\ flushCalls' = flushCalls + 1
    /\ UNCHANGED <<sinkInit, logged>>

\* a group that lets a later error replace the one it holds
LastErr(cur, e) == IF e = Nil THEN cur ELSE e

\* errgroup keeps the first non-nil error
FirstErr(cur, e) == IF cur = Nil THEN e ELSE cur

\* a group that cancels its context whenever a task returns
GroupReturnCancels(t, e) ==
    /\ task' = [task EXCEPT ![t] = "done"]
    /\ ret' = [ret EXCEPT ![t] = e]
    /\ groupErr' = FirstErr(groupErr, e)
    /\ gctxCancelled' = TRUE

\* a task function returns e to the group
GroupReturn(t, e) ==
    /\ task' = [task EXCEPT ![t] = "done"]
    /\ ret' = [ret EXCEPT ![t] = e]
    /\ groupErr' = FirstErr(groupErr, e)
    /\ gctxCancelled' = (gctxCancelled \/ (e # Nil /\ groupErr = Nil))

\* g.Go(f)
GroupGo(t, s) ==
    /\ task' = [task EXCEPT ![t] = s]
    /\ UNCHANGED <<ret, groupErr, gctxCancelled>>

----------------------------------------------------------------------------
Init ==
    /\ enabled \in [Integrations -> BOOLEAN]
    /\ pc = "load"
    /\ path = "run"
    /\ exit = "none"
    /\ fault = "none"
    /\ task = [t \in Tasks |-> "none"]
    /\ ret = [t \in Tasks |-> "none"]
    /\ constructed = [i \in Integrations |-> "none"]
    /\ cancelCalled = FALSE
    /\ gctxCancelled = FALSE
    /\ groupErr = Nil
    /\ err = Nil
    /\ stopAllCalls = 0
    /\ schedStopCalls = 0
    /\ srvStopCalls = 0
    /\ sinkInit = FALSE
    /\ sinkLast = "none"
    /\ flushCalls = 0
    /\ logged = {}
    /\ dialogs = 0
    /\ tree = <<>>
    /\ idx = 0
    /\ seen = <<>>
    /\ sends = <<>>
    /\ scanLog = {}
    /\ reading = 0
    /\ content = <<>>
    /\ lines = <<>>

----------------------------------------------------------------------------
\* main, lines 95-100: config.Load()
MainLoad ==
    /\ Alive /\ pc = "load"
    /\ \E o \in Outcomes :
        \/ /\ o = "ok"
           /\ UNCHANGED fault
           /\ pc' = "logger"
           /\ UNCHANGED <<exit, err, dialogs>>
        \/ /\ o = "error"           \* ShowDialog, log.Fatalf: os.Exit(1)
           /\ UNCHANGED fault
           /\ err' = "load_err"
           /\ dialogs' = dialogs + 1
           /\ exit' = "fatal"
           /\ UNCHANGED pc
        \/ /\ o = "panic"           \* no recover is deferred yet
           /\ fault' = pc
           /\ exit' = "crash"
           /\ UNCHANGED <<pc, err, dialogs>>
    /\ UNCHANGED <<scanVars, enabled, path, constructed, cancelCalled, grpVars,
                   tearVars, sinkVars>>

\* main, lines 102-115: NewLogger, defer FlushLog, defer recover
MainLogger ==
    /\ Alive /\ pc = "logger"
    /\ \E o \in Outcomes :
        \/ /\ o = "ok"
           /\ UNCHANGED fault
           /\ sinkInit' = TRUE
           /\ pc' = "scan"
           /\ UNCHANGED <<exit, err>>
        \/ /\ o = "error"           \* log.Fatalf: os.Exit(1)
           /\ UNCHANGED fault
           /\ err' = "logger_err"
           /\ exit' = "fatal"
           /\ UNCHANGED <<pc, sinkInit>>
        \/ /\ o = "panic"           \* no recover is deferred yet
           /\ fault' = pc
           /\ exit' = "crash"
           /\ UNCHANGED <<pc, err, sinkInit>>
    /\ UNCHANGED <<scanVars, enabled, path, constructed, cancelCalled, grpVars,
                   tearVars, sinkLast, flushCalls, logged, dialogs>>

\* main, line 118: findConfigFiles()
MainScan ==
    /\ Alive /\ pc = "scan"
    /\ \E o \in {"ok", "panic"} :
        \/ /\ o = "ok"
           /\ UNCHANGED fault
           /\ pc' = "construct"
           /\ UNCHANGED path
        \/ /\ o = "panic"           \* defer cancel is not registered yet
           /\ fault' = pc
           /\ path' = "panic"
           /\ pc' = "defer_recover"
    /\ UNCHANGED <<scanVars, enabled,
                   exit, constructed, cancelCalled, grpVars, err,
                   tearVars, sinkVars, dialogs>>

\* main, lines 120-130: WithCancel, defer cancel, errgroup.WithContext,
\* NewListener, NewSupervisorManager, NewScheduler, go scheduler.Start()
MainConstruct ==
    /\ Alive /\ pc = "construct"
    /\ \E o \in {"ok", "panic"} :
        \/ /\ o = "ok"
           /\ UNCHANGED fault
           /\ pc' = "srvnew"
           /\ UNCHANGED path
        \/ /\ o = "panic"
           /\ fault' = pc
           /\ path' = "panic"
           /\ pc' = "defer_cancel"
    /\ UNCHANGED <<scanVars, enabled,
                   exit, constructed, cancelCalled, grpVars, err,
                   tearVars, sinkVars, dialogs>>

\* main, lines 131-134: server.New
MainServerNew ==
    /\ Alive /\ pc = "srvnew"
    /\ \E o \in Outcomes :
        \/ /\ o = "ok"
           /\ UNCHANGED fault
           /\ pc' = "reg_gui"
           /\ UNCHANGED <<path, exit, err>>
        \/ /\ o = "error"           \* log.Fatalf: os.Exit(1), no defer runs
           /\ UNCHANGED fault
           /\ err' = "srvnew_err"
           /\ exit' = "fatal"
           /\ UNCHANGED <<pc, path>>
        \/ /\ o = "panic"
           /\ fault' = pc
           /\ path' = "panic"
           /\ pc' = "defer_cancel"
           /\ UNCHANGED <<exit, err>>
    /\ UNCHANGED <<scanVars, enabled, constructed, cancelCalled, grpVars,
                   tearVars, sinkVars, dialogs>>

\* main, line 136: g.Go(GUI task)
MainGoGui ==
    /\ Alive /\ pc = "reg_gui"
    /\ GroupGo("gui", "create")
    /\ pc' = "discord"
    /\ UNCHANGED <<scanVars, enabled,
                   fault, path, exit, constructed, cancelCalled, err,
                   tearVars, sinkVars, dialogs>>

\* a start-up that skips the failed integration and goes on
InitFailContinues(next) == next

\* lines 165-168 / 179-182: where main goes when NewBot returns an error
InitFailPc(next) == "defer_cancel"

\* a start-up that hands the task to g.Go whatever NewBot returned
StartsTaskAlways(o) == TRUE

\* lines 164-173 / 178-187: g.Go gets the task only when NewBot succeeded
StartsTask(o) == o = "ok"

\* main, lines 163-174 (Discord) and 177-188 (Telegram)
MainIntegration(i, next) ==
    /\ Alive /\ pc = i
    /\ \/ /\ ~enabled[i]
          /\ pc' = next
          /\ UNCHANGED <<fault, path, constructed, grpVars, sinkVars>>
       \/ /\ enabled[i]
          /\ \E o \in Outcomes :
              \/ /\ o = "ok"
                 /\ UNCHANGED fault
                 /\ constructed' = [constructed EXCEPT ![i] = "ok"]
                 /\ IF StartsTask(o) THEN GroupGo(i, "run")
                                   ELSE UNCHANGED grpVars
                 /\ pc' = next
                 /\ UNCHANGED <<path, sinkVars>>
              \/ /\ o = "error"     \* logger.Error; return
                 /\ UNCHANGED fault
                 /\ constructed' = [constructed EXCEPT ![i] = "failed"]
                 /\ IF StartsTask(o) THEN GroupGo(i, "run")
                                   ELSE UNCHANGED grpVars
                 /\ LogWrite(i \o "_init")
                 /\ pc' = InitFailPc(next)
                 /\ path' = "initfail"
              \/ /\ o = "panic"
                 /\ fault' = pc
                 /\ path' = "panic"
                 /\ pc' = "defer_cancel"
                 /\ UNCHANGED <<constructed, grpVars, sinkVars>>
    /\ UNCHANGED <<scanVars, enabled,
                   exit, cancelCalled, err, tearVars, dialogs>>

MainDiscord == MainIntegration("discord", "telegram")

MainTelegram == MainIntegration("telegram", "reg_srv")

\* main, lines 190-193: g.Go(Control Server task)
MainGoServer ==
    /\ Alive /\ pc = "reg_srv"
    /\ GroupGo("server", "run")
    /\ pc' = "reg_bus"
    /\ UNCHANGED <<scanVars, enabled,
                   fault, path, exit, constructed, cancelCalled, err,
                   tearVars, sinkVars, dialogs>>

\* main, lines 195-198: g.Go(Event Bus task)
MainGoBus ==
    /\ Alive /\ pc = "reg_bus"
    /\ GroupGo("bus", "run")
    /\ pc' = "reg_shutdown"
    /\ UNCHANGED <<scanVars, enabled,
                   fault, path, exit, constructed, cancelCalled, err,
                   tearVars, sinkVars, dialogs>>

\* main, lines 200-212: g.Go(shutdown task)
MainGoShutdown ==
    /\ Alive /\ pc = "reg_shutdown"
    /\ GroupGo("shutdown", "wait")
    /\ pc' = "wait"
    /\ UNCHANGED <<scanVars, enabled,
                   fault, path, exit, constructed, cancelCalled, err,
                   tearVars, sinkVars, dialogs>>

\* a wait that returns as soon as the shutdown task has returned
WaitReadyShutdownOnly == task["shutdown"] = "done"

\* g.Wait() returns when every goroutine of the group has returned
WaitReady == \A t \in Tasks : task[t] \in {"none", "done"}

\* main, line 214: err = g.Wait(); Wait cancels the group's context
MainWait ==
    /\ Alive /\ pc = "wait"
    /\ WaitReady
    /\ err' = groupErr
    /\ gctxCancelled' = TRUE
    /\ pc' = "after_wait"
    /\ path' = IF groupErr = Nil THEN "clean" ELSE "waiterr"
    /\ UNCHANGED <<scanVars, enabled,
                   fault, exit, task, ret, groupErr, constructed,
                   cancelCalled, tearVars, sinkVars, dialogs>>

\* a main that returns the error of g.Wait() without logging it
MainWaitErrSilent ==
    /\ Alive /\ pc = "after_wait"
    /\ err # Nil
    /\ cancelCalled' = TRUE
    /\ pc' = "defer_cancel"
    /\ UNCHANGED <<scanVars, enabled,
                   fault, path, exit, constructed, grpVars, err,
                   tearVars, sinkVars, dialogs>>

\* main, lines 215-219: cancel(); logger.Error("Error running Koolo"); return
MainWaitErr ==
    /\ Alive /\ pc = "after_wait"
    /\ err # Nil
    /\ cancelCalled' = TRUE
    /\ LogWrite("run:" \o err)
    /\ pc' = "defer_cancel"
    /\ UNCHANGED <<scanVars, enabled,
                   fault, path, exit, constructed, grpVars, err,
                   tearVars, dialogs>>

\* main, line 221: sloggger.FlushLog()
MainFlush ==
    /\ Alive /\ pc = "after_wait"
    /\ err = Nil
    /\ FlushLog
    /\ pc' = "defer_cancel"
    /\ UNCHANGED <<scanVars, enabled,
                   fault, path, exit, constructed, cancelCalled, grpVars,
                   err, tearVars, dialogs>>

\* line 121, run when main returns or panics: defer cancel()
DeferCancel ==
    /\ Alive /\ pc = "defer_cancel"
    /\ cancelCalled' = TRUE
    /\ pc' = "defer_recover"
    /\ UNCHANGED <<scanVars, enabled,
                   fault, path, exit, constructed, grpVars, err,
                   tearVars, sinkVars, dialogs>>

\* a deferred closure that recovers and reports nothing
BarrierSilent(panicking) == "defer_flush"

\* a deferred closure that reports whether or not main panicked
BarrierAlways(panicking) == "recover_log"

\* lines 108-115: what the deferred closure does after recover()
BarrierSteps(panicking) ==
    IF panicking THEN "recover_log" ELSE "defer_flush"

\* lines 108-109: the deferred closure calls recover()
DeferRecover ==
    /\ Alive /\ pc = "defer_recover"
    /\ pc' = BarrierSteps(path = "panic")
    /\ UNCHANGED <<scanVars, enabled,
                   fault, path, exit, constructed, cancelCalled, grpVars,
                   err, tearVars, sinkVars, dialogs>>

\* lines 110-111: err = fmt.Errorf("fatal error ..."); logger.Error(err.Error())
RecoverLog ==
    /\ Alive /\ pc = "recover_log"
    /\ err' = "fatal"
    /\ LogWrite("fatal")
    /\ pc' = "recover_flush"
    /\ UNCHANGED <<scanVars, enabled,
                   fault, path, exit, constructed, cancelCalled, grpVars,
                   tearVars, dialogs>>

\* line 112: sloggger.FlushLog()
RecoverFlush ==
    /\ Alive /\ pc = "recover_flush"
    /\ FlushLog
    /\ pc' = "recover_dialog"
    /\ UNCHANGED <<scanVars, enabled,
                   fault, path, exit, constructed, cancelCalled, grpVars,
                   err, tearVars, dialogs>>

\* line 113: utils.ShowDialog("Koolo error :(", ...)
RecoverDialog ==
    /\ Alive /\ pc = "recover_dialog"
    /\ dialogs' = dialogs + 1
    /\ pc' = "defer_flush"
    /\ UNCHANGED <<scanVars, enabled,
                   fault, path, exit, constructed, cancelCalled, grpVars,
                   err, tearVars, sinkVars>>

\* line 106, run last: defer sloggger.FlushLog(); then main is over
DeferFlush ==
    /\ Alive /\ pc = "defer_flush"
    /\ FlushLog
    /\ pc' = "done"
    /\ exit' = "return"
    /\ UNCHANGED <<scanVars, enabled,
                   fault, path, constructed, cancelCalled, grpVars, err,
                   tearVars, dialogs>>

Main == \/ MainLoad \/ MainLogger \/ MainScan \/ MainConstruct
        \/ MainServerNew \/ MainGoGui \/ MainDiscord \/ MainTelegram
        \/ MainGoServer \/ MainGoBus \/ MainGoShutdown \/ MainWait
        \/ MainWaitErr \/ MainFlush \/ DeferCancel \/ DeferRecover
        \/ RecoverLog \/ RecoverFlush \/ RecoverDialog \/ DeferFlush

----------------------------------------------------------------------------
\* a GUI task without its defer cancel()
GuiNoCancel(c) == c

\* a cancel() that undoes an earlier cancel()
GuiCancelToggles(c) == ~c

\* line 137: the GUI task's defer cancel()
GuiDeferCancel(c) == TRUE

\* GUI task, lines 137-154: gowebview.New; on error w.Destroy() and return the
\* error. w is whatever New returned with the error: on a nil w the call
\* faults inside the goroutine and the runtime ends the process.
GuiCreate ==
    /\ Alive /\ task["gui"] = "create"
    /\ \E o \in Outcomes :
        \/ /\ o = "ok"              \* w.SetSize, then w.Run() blocks
           /\ task' = [task EXCEPT !["gui"] = "run"]
           /\ UNCHANGED <<ret, groupErr, gctxCancelled, cancelCalled, exit>>
        \/ /\ o = "error"           \* defer cancel(); return error
           /\ GroupReturn("gui", ErrOf("gui"))
           /\ cancelCalled' = GuiDeferCancel(cancelCalled)
           /\ UNCHANGED exit
        \/ /\ o = "panic"           \* defer cancel() runs, nothing recovers
           /\ cancelCalled' = GuiDeferCancel(cancelCalled)
           /\ exit' = "crash"
           /\ UNCHANGED grpVars
    /\ UNCHANGED <<scanVars, enabled,
                   fault, pc, path, constructed, err, tearVars, sinkVars,
                   dialogs>>

\* GUI task, lines 156-159: the user closes the window, w.Run() returns,
\* w.Destroy(), return nil, defer cancel()
GuiClose ==
    /\ Alive /\ task["gui"] = "run"
    /\ GroupReturn("gui", Nil)
    /\ cancelCalled' = GuiDeferCancel(cancelCalled)
    /\ UNCHANGED <<scanVars, enabled,
                   fault, mainVars, constructed, err, tearVars, sinkVars,
                   dialogs>>

\* lines 171-173 / 185-187: Start(ctx) returns because ctx is done
IntegrationStop(t) ==
    /\ Alive /\ task[t] = "run" /\ CtxDone
    /\ \E e \in {Nil, ErrOf(t)} : GroupReturn(t, e)
    /\ UNCHANGED <<scanVars, enabled,
                   fault, mainVars, constructed, cancelCalled, err,
                   tearVars, sinkVars, dialogs>>

\* lines 171-173 / 185-187: Start(ctx) returns on its own
IntegrationEnd(t) ==
    /\ Alive /\ task[t] = "run" /\ ~CtxDone
    /\ \E e \in {Nil, ErrOf(t)} : GroupReturn(t, e)
    /\ UNCHANGED <<scanVars, enabled,
                   fault, mainVars, constructed, cancelCalled, err,
                   tearVars, sinkVars, dialogs>>

DiscordStop == IntegrationStop("discord")

DiscordEnd == IntegrationEnd("discord")

TelegramStop == IntegrationStop("telegram")

TelegramEnd == IntegrationEnd("telegram")

\* lines 195-198: eventListener.Listen(ctx) returns because ctx is done
BusStop ==
    /\ Alive /\ task["bus"] = "run" /\ CtxDone
    /\ \E e \in {Nil, ErrOf("bus")} : GroupReturn("bus", e)
    /\ cancelCalled' = TRUE
    /\ UNCHANGED <<scanVars, enabled,
                   fault, mainVars, constructed, err, tearVars, sinkVars,
                   dialogs>>

\* lines 195-198: eventListener.Listen(ctx) returns on its own
BusEnd ==
    /\ Alive /\ task["bus"] = "run" /\ ~CtxDone
    /\ \E e \in {Nil, ErrOf("bus")} : GroupReturn("bus", e)
    /\ cancelCalled' = TRUE
    /\ UNCHANGED <<scanVars, enabled,
                   fault, mainVars, constructed, err, tearVars, sinkVars,
                   dialogs>>

\* lines 190-193: srv.Listen(8087) fails on its own (address in use)
ServerFail ==
    /\ Alive /\ task["server"] = "run" /\ srvStopCalls = 0
    /\ GroupReturn("server", ErrOf("server"))
    /\ cancelCalled' = TRUE
    /\ UNCHANGED <<scanVars, enabled,
                   fault, mainVars, constructed, err, tearVars, sinkVars,
                   dialogs>>

\* lines 190-193: srv.Listen(8087) returns once srv.Stop() was called
ServerStopped ==
    /\ Alive /\ task["server"] = "run" /\ srvStopCalls > 0
    /\ \E e \in {Nil, ErrOf("server")} : GroupReturn("server", e)
    /\ cancelCalled' = TRUE
    /\ UNCHANGED <<scanVars, enabled,
                   fault, mainVars, constructed, err, tearVars, sinkVars,
                   dialogs>>

\* the error srv.Stop() can return
StopErr == "stop_err"

\* shutdown task, line 201: <-ctx.Done()
ShutdownMayStart == CtxDone

\* a shutdown task that tears down at once: no <-ctx.Done(), no cancel()
ShutdownNoWait ==
    /\ Alive /\ task["shutdown"] = "wait"
    /\ LogWrite("shutting_down")
    /\ task' = [task EXCEPT !["shutdown"] = "stopall"]
    /\ UNCHANGED <<scanVars, enabled, fault, mainVars, ret, groupErr, ctxVars,
                   constructed, err, tearVars, dialogs>>

\* shutdown task, lines 201-203: <-ctx.Done(); logger.Info; cancel()
ShutdownObserve ==
    /\ Alive /\ task["shutdown"] = "wait" /\ ShutdownMayStart
    /\ LogWrite("shutting_down")
    /\ cancelCalled' = TRUE
    /\ task' = [task EXCEPT !["shutdown"] = "stopall"]
    /\ UNCHANGED <<scanVars, enabled,
                   fault, mainVars, ret, groupErr, gctxCancelled,
                   constructed, err, tearVars, dialogs>>

\* a shutdown task that goes on to scheduler.Stop() without manager.StopAll()
ShutdownSkipStopAll ==
    /\ Alive /\ task["shutdown"] = "stopall"
    /\ task' = [task EXCEPT !["shutdown"] = "sched"]
    /\ UNCHANGED <<scanVars, enabled,
                   fault, mainVars, ret, groupErr, ctxVars, constructed,
                   err, tearVars, sinkVars, dialogs>>

\* shutdown task, line 204: manager.StopAll()
ShutdownStopAll ==
    /\ Alive /\ task["shutdown"] = "stopall"
    /\ stopAllCalls' = stopAllCalls + 1
    /\ task' = [task EXCEPT !["shutdown"] = "sched"]
    /\ UNCHANGED <<scanVars, enabled,
                   fault, mainVars, ret, groupErr, ctxVars, constructed,
                   err, schedStopCalls, srvStopCalls, sinkVars, dialogs>>

\* shutdown task, line 205: scheduler.Stop()
ShutdownSchedStop ==
    /\ Alive /\ task["shutdown"] = "sched"
    /\ schedStopCalls' = schedStopCalls + 1
    /\ task' = [task EXCEPT !["shutdown"] = "srvstop"]
    /\ UNCHANGED <<scanVars, enabled,
                   fault, mainVars, ret, groupErr, ctxVars, constructed,
                   err, stopAllCalls, srvStopCalls, sinkVars, dialogs>>

\* shutdown task, lines 206-209: err = srv.Stop(); logger.Error if non-nil
ShutdownSrvStop ==
    /\ Alive /\ task["shutdown"] = "srvstop"
    /\ srvStopCalls' = srvStopCalls + 1
    /\ \E e \in {Nil, StopErr} :
        /\ err' = e
        /\ IF e # Nil THEN LogWrite("stop_err") ELSE UNCHANGED sinkVars
    /\ task' = [task EXCEPT !["shutdown"] = "ret"]
    /\ UNCHANGED <<scanVars, enabled,
                   fault, mainVars, ret, groupErr, ctxVars, constructed,
                   stopAllCalls, schedStopCalls, dialogs>>

\* shutdown task, line 211: return err
ShutdownReturn ==
    /\ Alive /\ task["shutdown"] = "ret"
    /\ GroupReturn("shutdown", err)
    /\ UNCHANGED <<scanVars, enabled,
                   fault, mainVars, constructed, cancelCalled, err,
                   tearVars, sinkVars, dialogs>>

Shutdown == \/ ShutdownObserve \/ ShutdownStopAll \/ ShutdownSchedStop
            \/ ShutdownSrvStop \/ ShutdownReturn

\* lines 120-123: the context comes from context.Background() and no signal
\* handler is installed, so a termination request ends the process at once
Kill ==
    /\ Alive
    /\ exit' = "killed"
    /\ UNCHANGED <<scanVars, enabled,
                   fault, pc, path, constructed, cancelCalled, grpVars,
                   err, tearVars, sinkVars, dialogs>>

Next == \/ MainLoad \/ MainLogger \/ MainScan \/ MainConstruct
        \/ MainServerNew \/ MainGoGui \/ MainDiscord \/ MainTelegram
        \/ MainGoServer \/ MainGoBus \/ MainGoShutdown \/ MainWait
        \/ MainWaitErr \/ MainFlush \/ DeferCancel \/ DeferRecover
        \/ RecoverLog \/ RecoverFlush \/ RecoverDialog \/ DeferFlush
        \/ GuiCreate \/ GuiClose
        \/ DiscordStop \/ DiscordEnd \/ TelegramStop \/ TelegramEnd
        \/ BusStop \/ BusEnd \/ ServerFail \/ ServerStopped
        \/ ShutdownObserve \/ ShutdownStopAll \/ ShutdownSchedStop
        \/ ShutdownSrvStop \/ ShutdownReturn
        \/ Kill

Spec == Init /\ [][Next]_vars

\* Every goroutine that can take a step of the program eventually takes it.
\* Nothing obliges the user to close the window, a collaborator to fail on
\* its own, or an operator to end the process.
FairSpec ==
    /\ Spec
    /\ WF_vars(Main)
    /\ WF_vars(GuiCreate)
    /\ WF_vars(DiscordStop)
    /\ WF_vars(TelegramStop)
    /\ WF_vars(BusStop)
    /\ WF_vars(ServerStopped)
    /\ WF_vars(Shutdown)
----------------------------------------------------------------------------
\* g.Wait() has returned in main
WaitReturned == path \in {"clean", "waiterr"}

\* main has returned (its deferred calls have run)
MainReturned == exit = "return"

\* some task has returned a non-nil error to the group
SomeTaskErred == \E t \in Tasks : ret[t] \notin {"none", Nil}

AllReturnedNil == \A t \in Registered : ret[t] = Nil

----------------------------------------------------------------------------
\* C1: in every reachable state in which srv.Stop() has been invoked,
\* manager.StopAll() has been invoked, and every step that invokes srv.Stop()
\* starts in a state in which manager.StopAll() has already been invoked,
\* whatever fired the signal.
C1_StopAllBeforeStop ==
    /\ [](srvStopCalls > 0 => stopAllCalls > 0)
    /\ [][srvStopCalls' > srvStopCalls => stopAllCalls > 0]_vars

\* srv.Stop() has run in a shutdown that a Listen error triggered while the
\* window was still open
C1_Witness ==
    /\ srvStopCalls = 1 /\ stopAllCalls = 1
    /\ ret["server"] = ErrOf("server")
    /\ task["gui"] = "run"

C6_NoReturnWhileTaskRuns == MainReturned => Running = {}

\* C6 amended: when g.Wait() has returned, every registered task has
\* returned, and main returns with a task still running only on the paths
\* that never reach the wait (a failed NewBot, a recovered fault).
C6_WaitedMeansAllReturned ==
    /\ WaitReturned => (Running = {} /\ \A t \in Registered : ret[t] # "none")
    /\ (MainReturned /\ Running # {}) => path \in {"initfail", "panic"}

\* the wait returned after all six tasks had run
C6_Witness ==
    /\ WaitReturned
    /\ Registered = Tasks
    /\ MainReturned

\* C7: at every moment the notification tasks handed to the group are the
\* enabled integrations whose NewBot was called and succeeded, and the task
\* of an integration whose NewBot failed is never started.
C7_RegisteredIntegrations ==
    \A i \in Integrations :
        /\ (task[i] # "none") <=> (enabled[i] /\ constructed[i] = "ok")
        /\ constructed[i] = "failed" => (task[i] = "none" /\ ret[i] = "none")
        /\ pc \in {"reg_srv", "reg_bus", "reg_shutdown", "wait"}
              => (constructed[i] = "ok" <=> enabled[i])

\* Discord was constructed and started, Telegram failed to construct
C7_Witness ==
    /\ enabled["discord"] /\ enabled["telegram"]
    /\ constructed["discord"] = "ok" /\ task["discord"] # "none"
    /\ constructed["telegram"] = "failed"

InitFailed == \E i \in Integrations : constructed[i] = "failed"

\* what holds in every state after a NewBot has failed
InitFailureState ==
    InitFailed =>
        /\ path = "initfail"
        /\ \E i \in Integrations :
              constructed[i] = "failed" /\ (i \o "_init") \in logged
        /\ \A t \in {"server", "bus", "shutdown"} : task[t] = "none"
        /\ constructed["discord"] = "failed" =>
              (constructed["telegram"] = "none" /\ task["telegram"] = "none")
        /\ pc \in {"defer_cancel", "defer_recover", "defer_flush", "done"}
        /\ stopAllCalls = 0 /\ schedStopCalls = 0 /\ srvStopCalls = 0
        /\ dialogs = 0
        /\ MainReturned => (sinkLast = "flush" /\ flushCalls = 1)

\* C8: after a failed NewBot the failure is in the log, no further task is
\* registered, the wait is not entered, no teardown call is made, and main
\* returns with the log flushed (unless the process is ended from outside
\* main first: a termination request, a fault in the GUI goroutine).
C8_InitFailureAborts ==
    /\ []InitFailureState
    /\ InitFailed ~> (MainReturned \/ exit \in {"killed", "crash"})

\* Telegram failed after Discord had been started, and main has returned
C8_Witness ==
    /\ constructed["telegram"] = "failed"
    /\ task["discord"] = "run"
    /\ MainReturned
\* main raised a fault and the process is over without having been ended
\* from outside main
FaultEnded ==
    /\ fault # "none"
    /\ \/ MainReturned
       \/ exit = "crash" /\ task["gui"] = "none"

\* the barrier has produced its one report and the log was flushed after it
ReportedAndFlushed ==
    /\ path = "panic"
    /\ "fatal" \in logged
    /\ dialogs = 1
    /\ sinkLast = "flush"
    /\ flushCalls = 2

C10_FlushBeforeExit ==
    (sinkInit /\ exit \in {"return", "fatal"}) =>
        (sinkLast = "flush" /\ flushCalls > 0)

\* C2 as stated, for a run that has reached the wait: once a task has
\* returned an error, the wait returns (unless the process is ended from
\* outside main first).
C2_ErrorDrainsGroup ==
    (SomeTaskErred /\ pc = "wait")
        ~> (WaitReturned \/ exit \in {"killed", "crash"})

\* the window was closed by the user and the GUI task returned nil
GuiClosed == ret["gui"] = Nil

\* C4: once the GUI task has returned nil the signal has fired; if main has
\* reached the wait, every registered task then returns and the wait returns
\* (unless the process is ended from outside first); and the result is nil
\* when every other task and srv.Stop() returned nil.
C4_GuiCloseDrainsGroup ==
    /\ [](GuiClosed => CtxDone)
    /\ (GuiClosed /\ pc = "wait")
          ~> ((WaitReturned /\ Running = {}) \/ exit = "killed")
    /\ []((WaitReturned /\ GuiClosed /\ AllReturnedNil) => err = Nil)

\* the window was closed while every other task was running, and the wait
\* has returned nil with both notification tasks registered
C4_Witness ==
    /\ WaitReturned
    /\ GuiClosed
    /\ Registered = Tasks
    /\ err = Nil
    /\ stopAllCalls = 1 /\ srvStopCalls = 1

----------------------------------------------------------------------------
OtherTaskErred == \E t \in Tasks \ {"shutdown"} : ret[t] \notin {"none", Nil}

C13_TerminationPropagates ==
    (exit = "killed" /\ pc = "wait") =>
        (CtxDone /\ stopAllCalls = 1 /\ srvStopCalls = 1)

\* C14: the signal stays fired once fired, a cancel() called again leaves
\* it fired, and the many cancel() calls cause one teardown at most.
C14_SignalIrreversible ==
    /\ [][CtxDone => CtxDone']_vars
    /\ [][cancelCalled => cancelCalled']_vars
    /\ [][gctxCancelled => gctxCancelled']_vars
    /\ [](stopAllCalls <= 1 /\ schedStopCalls <= 1 /\ srvStopCalls <= 1)

\* cancel() has been called by the GUI, server and event bus tasks, by the
\* shutdown task and by main after the wait and on return
C14_Witness ==
    /\ MainReturned /\ path = "waiterr"
    /\ \A t \in {"gui", "server", "bus", "shutdown"} : task[t] = "done"
    /\ cancelCalled
    /\ stopAllCalls = 1 /\ srvStopCalls = 1

\* C15: when StopAll, scheduler.Stop or srv.Stop has been invoked, the
\* signal has fired, and it had fired before the step that invoked it.
C15_TeardownAfterCancel ==
    /\ []((stopAllCalls > 0 \/ schedStopCalls > 0 \/ srvStopCalls > 0)
            => CtxDone)
    /\ [][(stopAllCalls' > stopAllCalls \/ schedStopCalls' > schedStopCalls
             \/ srvStopCalls' > srvStopCalls) => CtxDone]_vars

\* StopAll has run after the user closed the window
C15_Witness ==
    /\ stopAllCalls = 1 /\ srvStopCalls = 0
    /\ GuiClosed
    /\ CtxDone

\* C16: when the GUI task has returned, with nil or with the error of
\* gowebview.New, cancel() has been called and the signal has fired.
C16_GuiReturnFiresSignal ==
    task["gui"] = "done" => (cancelCalled /\ CtxDone)

\* the GUI task returned the window-creation error
C16_Witness ==
    /\ ret["gui"] = ErrOf("gui")
    /\ task["gui"] = "done"
    /\ cancelCalled

\* the process was ended by a fault raised inside the GUI goroutine
TaskFaultEnded == exit = "crash" /\ fault = "none" /\ task["gui"] = "create"

\* C17: the barrier reports only faults of main's own path: a fault in a
\* registered task ends the process with no report of the barrier.
C17_TaskFaultNotReported ==
    /\ TaskFaultEnded => ("fatal" \notin logged /\ dialogs = 0)
    /\ pc \in {"recover_log", "recover_flush", "recover_dialog"}
          => fault # "none"
    /\ ("fatal" \in logged \/ (dialogs > 0 /\ pc # "load")) => fault # "none"

\* the GUI goroutine faulted while main was in the wait
C17_Witness ==
    /\ TaskFaultEnded
    /\ pc = "wait"
    /\ task["shutdown"] # "none"

\* main is past the wait or is running its deferred calls
MainLeftRun ==
    pc \in {"after_wait", "defer_cancel", "defer_recover", "recover_log",
            "recover_flush", "recover_dialog", "defer_flush", "done"}

\* C18: when the signal has fired, the GUI, server or event bus task is
\* over, or a task has returned a non-nil error, or main has left the run;
\* and a notification task returning nil changes neither the signal nor
\* any other task.
C18_SignalHasCause ==
    /\ [](CtxDone =>
            \/ \E t \in {"gui", "server", "bus"} : task[t] = "done"
            \/ TaskFaultEnded
            \/ SomeTaskErred
            \/ MainLeftRun)
    /\ [][\A i \in Integrations :
            (ret[i] = "none" /\ ret'[i] = Nil) =>
                /\ CtxDone' = CtxDone
                /\ \A t \in Tasks \ {i} : task'[t] = task[t]]_vars

\* Discord returned nil on its own, the signal has not fired and the other
\* tasks are running
C18_Witness ==
    /\ ret["discord"] = Nil
    /\ ~CtxDone
    /\ task["gui"] = "run" /\ task["server"] = "run" /\ task["bus"] = "run"
    /\ task["shutdown"] = "wait"

\* C19: StopAll, scheduler.Stop and srv.Stop are each invoked at most once,
\* and each exactly once when the wait has returned.
C19_TeardownOnce ==
    /\ stopAllCalls <= 1 /\ schedStopCalls <= 1 /\ srvStopCalls <= 1
    /\ WaitReturned =>
          (stopAllCalls = 1 /\ schedStopCalls = 1 /\ srvStopCalls = 1)
    /\ task["server"] = "done" =>
          (srvStopCalls = 1 \/ ret["server"] = ErrOf("server"))

\* the wait returned nil after one teardown that released Listen
C19_Witness ==
    /\ WaitReturned
    /\ err = Nil
    /\ ret["server"] = Nil
    /\ stopAllCalls = 1 /\ schedStopCalls = 1 /\ srvStopCalls = 1

----------------------------------------------------------------------------
(***************************************************************************)
(* findConfigFiles, readConfigFile and sendMessage (lines 31-92): the walk *)
(* over the "config" directory that main runs at line 118.                 *)
(***************************************************************************)

\* entries below the root in a tree
MaxEntries == 3

\* lines in a config file
MaxLines == 6

\* line 56: the scanner loop stops after this many lines
ReadLines == 5

\* the names of the model, in the lexical order in which Walk visits the
\* names of one directory
Names == <<"Config.YAML", "config.yaml", "notes.txt", "profile",
           "template">>

Rank(n) == CHOOSE i \in 1..Len(Names) : Names[i] = n

DirNames == {"config.yaml", "profile", "template"}

FileNames == {"Config.YAML", "config.yaml", "notes.txt", "template"}

\* line 65: rootDir
Root == [depth |-> 0, dir |-> TRUE, name |-> "config"]

Entries ==
    [depth : 1..MaxEntries, dir : {TRUE}, name : DirNames]
        \cup [depth : 1..MaxEntries, dir : {FALSE}, name : FileNames]

\* the entry before e in e's directory (0 if e is the first one)
PrevSibling(t, e) ==
    LET same == {j \in 1..(e - 1) :
                    /\ t[j].depth = t[e].depth
                    /\ \A k \in j..e : t[k].depth >= t[e].depth}
    IN IF same = {} THEN 0 ELSE CHOOSE j \in same : \A k \in same : k <= j

\* entry x may follow the entries of t in the order of a walk: children
\* follow their directory, only directories have children, the names of a
\* directory come sorted
Extends(t, x) ==
    LET u == Append(t, x)
        e == Len(u)
        j == PrevSibling(u, e)
    IN /\ x.depth <= t[e - 1].depth + 1
       /\ x.depth = t[e - 1].depth + 1 => t[e - 1].dir
       /\ j # 0 => Rank(u[j].name) < Rank(x.name)

\* the trees of at most n entries below the root
RECURSIVE TreesOf(_)
TreesOf(n) ==
    IF n = 0 THEN {<<Root>>}
    ELSE LET prev == TreesOf(n - 1)
         IN prev \cup {Append(t, x) : <<t, x>> \in
                          {y \in prev \X Entries :
                              Len(y[1]) = n /\ Extends(y[1], y[2])}}

Trees == TreesOf(MaxEntries)

\* the directories e lies in
Anc(t, e) ==
    {a \in 1..(e - 1) :
        /\ t[a].depth < t[e].depth
        /\ \A k \in (a + 1)..e : t[k].depth > t[a].depth}

\* the lines scanner.Scan can yield from a config file before it returns
\* false: n blank lines or n lines of text
LineText(i) == "l" \o ToString(i)

Contents ==
    {[i \in 1..n |-> IF k = "blank" THEN "" ELSE LineText(i)] :
        n \in 0..MaxLines, k \in {"blank", "text"}}

\* a comparison of the name as it is, without ToLower
LowerIdentity(n) == n

\* line 78: strings.ToLower on the names of the model
Lower(n) == IF n = "Config.YAML" THEN "config.yaml" ELSE n

\* line 73: info.IsDir() && info.Name() == "template"
SkipsDir(x) == x.dir /\ x.name = "template"

\* line 78: !info.IsDir() && strings.ToLower(info.Name()) == "config.yaml"
IsConfigFile(x) == ~x.dir /\ Lower(x.name) = "config.yaml"

\* lines 55-58: for i := 0; i < 5 && scanner.Scan(); i++ { append }
RECURSIVE ScanLoop(_, _, _)
ScanLoop(c, i, acc) ==
    IF i < ReadLines /\ i < Len(c)
        THEN ScanLoop(c, i + 1, Append(acc, c[i + 1]))
        ELSE acc

\* line 60: strings.Join(lines, "\n")
RECURSIVE JoinLines(_)
JoinLines(ls) ==
    IF ls = <<>> THEN ""
    ELSE IF Len(ls) = 1 THEN ls[1]
    ELSE ls[1] \o "\n" \o JoinLines(Tail(ls))

\* the entry Walk goes to after e: the first entry of e when Walk enters
\* it, else the next entry that is not below e
NextEntry(t, e, enter) ==
    IF enter THEN e + 1
    ELSE LET after == {j \in (e + 1)..Len(t) : t[j].depth <= t[e].depth}
         IN IF after = {} THEN Len(t) + 1
            ELSE CHOOSE j \in after : \A k \in after : j <= k

ScanInit ==
    /\ enabled = [i \in Integrations |-> FALSE]
    /\ pc = "scan"
    /\ path = "run"
    /\ exit = "none"
    /\ fault = "none"
    /\ task = [t \in Tasks |-> "none"]
    /\ ret = [t \in Tasks |-> "none"]
    /\ constructed = [i \in Integrations |-> "none"]
    /\ cancelCalled = FALSE
    /\ gctxCancelled = FALSE
    /\ groupErr = Nil
    /\ err = Nil
    /\ stopAllCalls = 0
    /\ schedStopCalls = 0
    /\ srvStopCalls = 0
    /\ sinkInit = TRUE
    /\ sinkLast = "none"
    /\ flushCalls = 0
    /\ logged = {}
    /\ dialogs = 0
    /\ tree \in Trees
    /\ idx = 1
    /\ seen = [e \in 1..Len(tree) |-> "no"]
    /\ sends = [e \in 1..Len(tree) |-> <<>>]
    /\ scanLog = {}
    /\ reading = 0
    /\ content = <<>>
    /\ lines = <<>>

restVars == <<enabled, path, exit, fault, task, ret, constructed,
              cancelCalled, gctxCancelled, groupErr, err, tearVars,
              sinkVars, dialogs>>

\* Walk is about to call the walk function on entry idx
Walking == Alive /\ pc = "scan" /\ reading = 0 /\ idx \in 1..Len(tree)

\* the walk function returns for entry idx with outcome o
Visited(o, enter) ==
    /\ seen' = [seen EXCEPT ![idx] = o]
    /\ idx' = NextEntry(tree, idx, enter)

\* lines 67-70: Lstat of the path failed: log and return nil
ScanAccessError ==
    /\ Walking
    /\ Visited("lstat_err", FALSE)
    /\ scanLog' = scanLog \cup {<<"lstat_err", idx>>}
    /\ UNCHANGED <<pc, restVars, tree, sends, reading, content, lines>>

\* lines 67-70: the directory could not be read: log and return nil; Walk
\* does not enter it
ScanDirError ==
    /\ Walking /\ tree[idx].dir
    /\ Visited("readdir_err", FALSE)
    /\ scanLog' = scanLog \cup {<<"readdir_err", idx>>}
    /\ UNCHANGED <<pc, restVars, tree, sends, reading, content, lines>>

\* lines 72-75 and 86: a directory: filepath.SkipDir for "template", else nil
ScanDir ==
    /\ Walking /\ tree[idx].dir
    /\ IF SkipsDir(tree[idx]) THEN Visited("skipdir", FALSE)
                              ELSE Visited("dir", TRUE)
    /\ UNCHANGED <<pc, restVars, tree, sends, scanLog, reading, content, lines>>

\* lines 78 and 86: a file that is no config.yaml
ScanFile ==
    /\ Walking /\ ~tree[idx].dir /\ ~IsConfigFile(tree[idx])
    /\ Visited("file", FALSE)
    /\ UNCHANGED <<pc, restVars, tree, sends, scanLog, reading, content, lines>>

\* lines 47-51 and 81: os.Open failed: log, return "", nothing is sent
ScanOpenError ==
    /\ Walking /\ IsConfigFile(tree[idx])
    /\ Visited("open_err", FALSE)
    /\ scanLog' = scanLog \cup {<<"open_err", idx>>}
    /\ UNCHANGED <<pc, restVars, tree, sends, reading, content, lines>>

\* lines 47-58: the file opened; the scanner loop fills lines
ScanRead ==
    /\ Walking /\ IsConfigFile(tree[idx])
    /\ \E c \in Contents :
        /\ content' = c
        /\ lines' = ScanLoop(c, 0, <<>>)
    /\ reading' = idx
    /\ UNCHANGED <<pc, restVars, tree, idx, seen, sends, scanLog>>

\* lines 60 and 81-84: message := Join(lines); if message != "" sendMessage,
\* which logs the error of http.Get (lines 39-42); sends keeps the lines
\* the message was joined from
ScanSend ==
    /\ Alive /\ pc = "scan" /\ reading # 0
    /\ IF JoinLines(lines) # ""
        THEN \E o \in {"sent", "send_err"} :
                /\ sends' = [sends EXCEPT ![idx] = Append(@, lines)]
                /\ Visited(o, FALSE)
                /\ scanLog' = IF o = "send_err"
                                THEN scanLog \cup {<<"send_err", idx>>}
                                ELSE scanLog
        ELSE /\ Visited("empty", FALSE)
             /\ UNCHANGED <<sends, scanLog>>
    /\ reading' = 0
    /\ content' = <<>>
    /\ lines' = <<>>
    /\ UNCHANGED <<pc, restVars, tree>>

\* lines 87-91 and 118-120: Walk returns nil, findConfigFiles returns and
\* main goes on to context.WithCancel
ScanFinish ==
    /\ Alive /\ pc = "scan" /\ reading = 0 /\ idx = Len(tree) + 1
    /\ pc' = "construct"
    /\ UNCHANGED <<restVars, scanVars>>

ScanNext == \/ ScanAccessError \/ ScanDirError \/ ScanDir \/ ScanFile
            \/ ScanOpenError \/ ScanRead \/ ScanSend \/ ScanFinish

ScanSpec == ScanInit /\ [][ScanNext]_vars

FairScanSpec == ScanSpec /\ WF_vars(ScanNext)

----------------------------------------------------------------------------
\* the outcomes of the walk function that log an error
ScanErrors == {"lstat_err", "readdir_err", "open_err", "send_err"}

\* Walk got to entry e: every directory above it was entered
Reached(e) == \A a \in Anc(tree, e) : seen[a] = "dir"

BelowTemplate(e) ==
    \E a \in Anc(tree, e) : tree[a].dir /\ tree[a].name = "template"

NamedConfigYaml(e) ==
    ~tree[e].dir /\ tree[e].name \in {"config.yaml", "Config.YAML"}

\* the string readConfigFile returns for these lines is not ""
NonEmptyRead(ls) == Len(ls) > 1 \/ (Len(ls) = 1 /\ ls[1] # "")

ScanDone == pc = "construct"

\* an error is logged, and the walk goes on to every entry that is not
\* below a directory it did not enter
C20_ErrorsLoggedAndSkipped ==
    /\ \A e \in 1..Len(tree) :
        seen[e] \in ScanErrors => <<seen[e], e>> \in scanLog
    /\ \A x \in scanLog : seen[x[2]] = x[1]
    /\ ScanDone => \A e \in 1..Len(tree) : seen[e] # "no" <=> Reached(e)

\* a directory named "template" is never entered; nothing below it is
\* visited, read or sent
C20_TemplateSkipped ==
    \A e \in 1..Len(tree) :
        /\ tree[e].dir /\ tree[e].name = "template" => seen[e] # "dir"
        /\ tree[e].dir /\ tree[e].name = "template" /\ Reached(e) /\ ScanDone
            => seen[e] \in {"skipdir", "lstat_err", "readdir_err"}
        /\ BelowTemplate(e) => seen[e] = "no" /\ sends[e] = <<>> /\ reading # e

\* only files named config.yaml in any case are read, each of them that the
\* walk reaches is read unless Lstat or Open fails, and each gets at most
\* one message, of at most ReadLines lines, exactly when its read was not ""
C20_OneMessagePerConfig ==
    \A e \in 1..Len(tree) :
        /\ Len(sends[e]) <= 1
        /\ Len(sends[e]) = 1 <=> seen[e] \in {"sent", "send_err"}
        /\ Len(sends[e]) = 1 =>
            Len(sends[e][1]) <= ReadLines /\ NonEmptyRead(sends[e][1])
        /\ seen[e] \in {"sent", "send_err", "empty", "open_err"} \/ reading = e
            => NamedConfigYaml(e) /\ ~BelowTemplate(e)
        /\ NamedConfigYaml(e) /\ seen[e] # "no"
            => seen[e] \in {"sent", "send_err", "empty", "open_err",
                            "lstat_err"}

\* while a file is read: lines holds its first ReadLines lines, or all of
\* them if it has fewer, and nothing was sent for it yet
C20_FirstLines ==
    reading # 0 =>
        /\ reading = idx /\ seen[reading] = "no" /\ sends[reading] = <<>>
        /\ Len(lines) = (IF Len(content) < 5 THEN Len(content) ELSE 5)
        /\ \A i \in 1..Len(lines) : lines[i] = content[i]

\* the read of a file ends in one message of the lines read if what was
\* read is not "", and in no message otherwise
C20_SendStep ==
    reading # 0 /\ reading' = 0 =>
        /\ NonEmptyRead(lines) => sends'[reading] = <<lines>>
        /\ ~NonEmptyRead(lines) =>
            sends'[reading] = <<>> /\ seen'[reading] = "empty"
        /\ \A e \in 1..Len(tree) : e # reading => sends'[e] = sends[e]

\* the scan leaves main only towards context.WithCancel, never ended
C20_NoAbort ==
    /\ pc \in {"scan", "construct"}
    /\ exit = "none" /\ path = "run" /\ fault = "none"

\* C20: the config scan never aborts startup: an error accessing a path,
\* opening a config file or sending a message is logged and the scan goes
\* on to the remaining entries; every directory named "template" is skipped
\* with its subtree; exactly one message of at most the first 5 lines is
\* sent for each file named config.yaml (in any case) outside such
\* directories whose read content is not empty; and main always gets to
\* creating the cancellation signal and the group.
C20_ScanNeverAborts ==
    /\ [](C20_ErrorsLoggedAndSkipped /\ C20_TemplateSkipped
            /\ C20_OneMessagePerConfig /\ C20_FirstLines /\ C20_NoAbort)
    /\ [][C20_SendStep]_vars
    /\ <>ScanDone

\* the scan is over: a Config.YAML got a message of five lines whose send
\* failed, and the config.yaml below a skipped "template" directory was
\* never visited
C20_Witness ==
    /\ ScanDone
    /\ \E e, f \in 1..Len(tree) :
        /\ tree[e].name = "Config.YAML" /\ seen[e] = "send_err"
        /\ Len(sends[e][1]) = ReadLines
        /\ tree[f].dir /\ tree[f].name = "template" /\ seen[f] = "skipdir"
        /\ \E c \in 1..Len(tree) :
            f \in Anc(tree, c) /\ NamedConfigYaml(c) /\ seen[c] = "no"
====
